---- MODULE Spec2Model ----
(***************************************************************************)
(* Heimdall-GPS telemetry receiver (src/telem.py): the dedup cache, the    *)
(* pipe-string parser, the trade / market normalisers, the classifier and  *)
(* the /ingest handler, as a state machine.                                *)
(*                                                                         *)
(* Texts are TLA+ strings; a character is a string of length 1.            *)
(* An optional value (Python None or a value) is a record: None is         *)
(* [none |-> TRUE], a text is [str |-> s], a parsed number is              *)
(* [float |-> s] or [int |-> s] where s is the literal that was converted. *)
(***************************************************************************)
EXTENDS Integers, Sequences, FiniteSets, TLC

(***************************************************************************)
(* Python str primitives                                                   *)
(***************************************************************************)
Ch(s, i) == SubSeq(s, i, i)

Whitespace == {" ", "\t", "\n", "\r"}

LowerAZ == "abcdefghijklmnopqrstuvwxyz"

UpperAZ == "ABCDEFGHIJKLMNOPQRSTUVWXYZ"

Digits == {"0", "1", "2", "3", "4", "5", "6", "7", "8", "9"}

\* str.upper() / str.lower() of one character (ASCII letters)
UpperCh(c) ==
    IF \E i \in 1..26 : Ch(LowerAZ, i) = c
    THEN Ch(UpperAZ, CHOOSE i \in 1..26 : Ch(LowerAZ, i) = c)
    ELSE c

LowerCh(c) ==
    IF \E i \in 1..26 : Ch(UpperAZ, i) = c
    THEN Ch(LowerAZ, CHOOSE i \in 1..26 : Ch(UpperAZ, i) = c)
    ELSE c

RECURSIVE Upper(_)
Upper(s) ==
    IF Len(s) = 0 THEN "" ELSE UpperCh(Ch(s, 1)) \o Upper(SubSeq(s, 2, Len(s)))

RECURSIVE Lower(_)
Lower(s) ==
    IF Len(s) = 0 THEN "" ELSE LowerCh(Ch(s, 1)) \o Lower(SubSeq(s, 2, Len(s)))

RECURSIVE LStrip(_)
LStrip(s) ==
    IF Len(s) > 0 /\ Ch(s, 1) \in Whitespace
    THEN LStrip(SubSeq(s, 2, Len(s)))
    ELSE s

RECURSIVE RStrip(_)
RStrip(s) ==
    IF Len(s) > 0 /\ Ch(s, Len(s)) \in Whitespace
    THEN RStrip(SubSeq(s, 1, Len(s) - 1))
    ELSE s

\* str.strip()
Strip(s) == RStrip(LStrip(s))

\* str.find(c) + 1: the index of the first c in s, 0 when there is none
Find(s, c) ==
    IF \E i \in 1..Len(s) : Ch(s, i) = c
    THEN CHOOSE i \in 1..Len(s) : Ch(s, i) = c /\ \A j \in 1..(i - 1) : Ch(s, j) # c
    ELSE 0

\* str.split(sep): always at least one part
RECURSIVE Split(_, _)
Split(s, sep) ==
    LET i == Find(s, sep)
    IN  IF i = 0 THEN <<s>>
        ELSE <<SubSeq(s, 1, i - 1)>> \o Split(SubSeq(s, i + 1, Len(s)), sep)

(***************************************************************************)
(* Optional values, dict.get                                               *)
(***************************************************************************)
None == [none |-> TRUE]

Str(s) == [str |-> s]

\* kv.get(k)
Get(kv, k) == IF k \in DOMAIN kv THEN Str(kv[k]) ELSE None

\* kv.get(k, d)
GetDefault(kv, k, d) == IF k \in DOMAIN kv THEN Str(kv[k]) ELSE Str(d)

\* Python truthiness of an optional text: None and "" are falsy
Truthy(o) == o # None /\ o # Str("")

\* a or b
Or(a, b) == IF Truthy(a) THEN a ELSE b

(***************************************************************************)
(* kv_parse                                                                *)
(***************************************************************************)
\* kv[k.strip()] = v.strip(): the last occurrence of a key wins
Put(kv, k, v) == [x \in (DOMAIN kv) \cup {k} |-> IF x = k THEN v ELSE kv[x]]

EmptyKv == [x \in {} |-> ""]

\* for p in parts[1:]: if "=" in p: k, v = p.split("=", 1); kv[k.strip()] = v.strip()
RECURSIVE KvOfParts(_, _, _)
KvOfParts(parts, i, kv) ==
    IF i > Len(parts) THEN kv
    ELSE LET p == parts[i]
             e == Find(p, "=")
         IN  IF e = 0 THEN KvOfParts(parts, i + 1, kv)
             ELSE KvOfParts(parts, i + 1,
                            Put(kv, Strip(SubSeq(p, 1, e - 1)),
                                    Strip(SubSeq(p, e + 1, Len(p)))))

kv_parse(msg) ==
    LET parts == Split(Strip(msg), "|")
    IN  [prefix |-> Upper(Strip(parts[1])), kv |-> KvOfParts(parts, 2, EmptyKv)]

\* norm_tf
norm_tf(o) == IF ~Truthy(o) THEN Str("na") ELSE Str(Strip(o.str))

(***************************************************************************)
(* float() and int() of a text                                             *)
(***************************************************************************)
IsDigits(s) == Len(s) > 0 /\ \A i \in 1..Len(s) : Ch(s, i) \in Digits

Unsigned(s) ==
    IF Len(s) > 0 /\ Ch(s, 1) \in {"+", "-"} THEN SubSeq(s, 2, Len(s)) ELSE s

\* digits, digits "." [digits], "." digits
IsDecimal(u) ==
    LET d == Find(u, ".")
        a == SubSeq(u, 1, d - 1)
        b == SubSeq(u, d + 1, Len(u))
    IN  IF d = 0 THEN IsDigits(u)
        ELSE /\ a = "" \/ IsDigits(a)
             /\ b = "" \/ IsDigits(b)
             /\ a # "" \/ b # ""

\* decimal [("e" | "E") [sign] digits]
IsDecimalExp(u) ==
    LET l == Lower(u)
        e == Find(l, "e")
    IN  IF e = 0 THEN IsDecimal(u)
        ELSE /\ IsDecimal(SubSeq(u, 1, e - 1))
             /\ IsDigits(Unsigned(SubSeq(u, e + 1, Len(u))))

\* float(s) does not raise ValueError (literals without digit-group underscores)
IsFloatLit(s) ==
    LET u == Unsigned(Strip(s))
    IN  \/ Lower(u) \in {"inf", "infinity", "nan"}
        \/ IsDecimalExp(u)

\* int(s) does not raise ValueError (base 10, literals without underscores)
IsIntLit(s) == IsDigits(Unsigned(Strip(s)))

(***************************************************************************)
(* Normalisers: the row dictionaries of store_trade and store_market.      *)
(* utc_ts() is not modelled: every request of a run falls on one UTC day,  *)
(* so each kind has one CSV file.                                          *)
(***************************************************************************)
\* kv.get(k) not in (None, "",)
Present(kv, k) == Get(kv, k) \notin {None, Str("")}

\* float(kv[k]) if kv.get(k) not in (None, "",) else None
FloatField(kv, k) == IF Present(kv, k) THEN [float |-> Strip(kv[k])] ELSE None

\* int(kv[k]) if kv.get(k) not in (None, "",) else None
IntField(kv, k) == IF Present(kv, k) THEN [int |-> Strip(kv[k])] ELSE None

\* the conversion of field k raises ValueError
FloatRaises(kv, k) == Present(kv, k) /\ ~IsFloatLit(kv[k])

IntRaises(kv, k) == Present(kv, k) /\ ~IsIntLit(kv[k])

TradeFloatKeys == {"al", "hr", "ds", "sl", "wr20"}

MarketFloatKeys == {"p", "v", "atr", "bbw", "bb", "al", "hr", "adx", "liq", "spr"}

\* building the row of store_trade raises ValueError
TradeRowRaises(kv) ==
    IntRaises(kv, "ag") \/ \E k \in TradeFloatKeys : FloatRaises(kv, k)

\* building the row of store_market raises ValueError; float(kv["bb"]) is
\* evaluated for "bb", and for "bbw" only when bbw is absent or empty
MarketRowRaises(kv) == \E k \in MarketFloatKeys : FloatRaises(kv, k)

TradeRow(raw, kv, src) ==
    [sym     |-> GetDefault(kv, "sym", "na"),
     tf      |-> norm_tf(Get(kv, "tf")),
     verb    |-> Or(Or(Get(kv, "sig"), Get(kv, "verb")), Str(Split(raw, "|")[1])),
     persona |-> Or(Get(kv, "sq"), Get(kv, "p")),
     ag      |-> IntField(kv, "ag"),
     al      |-> FloatField(kv, "al"),
     hr      |-> FloatField(kv, "hr"),
     ds      |-> FloatField(kv, "ds"),
     sl      |-> FloatField(kv, "sl"),
     mx      |-> Get(kv, "mx"),
     rs      |-> Or(Get(kv, "rs"), Get(kv, "reg")),
     wr20    |-> FloatField(kv, "wr20"),
     src     |-> Str(src),
     raw     |-> Str(raw)]

MarketRow(raw, kv, src) ==
    [sym  |-> GetDefault(kv, "sym", "na"),
     tf   |-> norm_tf(Get(kv, "tf")),
     p    |-> FloatField(kv, "p"),
     v    |-> FloatField(kv, "v"),
     atr  |-> FloatField(kv, "atr"),
     bbw  |-> IF Present(kv, "bbw") THEN FloatField(kv, "bbw") ELSE FloatField(kv, "bb"),
     al   |-> FloatField(kv, "al"),
     hr   |-> FloatField(kv, "hr"),
     rg   |-> Or(Or(Get(kv, "rg"), Get(kv, "regime")), Get(kv, "reg")),
     mx   |-> Get(kv, "mx"),
     adx  |-> FloatField(kv, "adx"),
     bb   |-> FloatField(kv, "bb"),
     liq  |-> FloatField(kv, "liq"),
     spr  |-> FloatField(kv, "spr"),
     sess |-> Get(kv, "sess"),
     fp   |-> Get(kv, "fp"),
     src  |-> Str(src),
     raw  |-> Str(raw)]

(***************************************************************************)
(* The sinks: the two SQLite tables and the two daily CSV files.  A disk   *)
(* is [trades, market, csv_trades, csv_market], each a sequence; a table   *)
(* row's id is its position, a CSV file that does not exist is <<>>.       *)
(* A fault is what the environment does to one store call: "none", "db"    *)
(* (sqlite3 raises in db() or conn.execute, nothing is inserted), "csv"    *)
(* (open() raises OSError in write_csv, after the autocommitted INSERT).   *)
(***************************************************************************)
Faults == {"none", "db", "csv"}

EmptyDisk == [trades |-> <<>>, market |-> <<>>, csv_trades |-> <<>>, csv_market |-> <<>>]

\* write_csv: the header when the file is new, then the row
write_csv(file, row) ==
    IF file = <<>>
    THEN <<[header |-> DOMAIN row], [line |-> row]>>
    ELSE Append(file, [line |-> row])

\* store_trade: the exception raised ("" when it returns) and the disk after
store_trade(raw, kv, src, fault, disk) ==
    LET row == TradeRow(raw, kv, src)
        inserted == [disk EXCEPT !.trades = Append(@, row)]
    IN  IF TradeRowRaises(kv) THEN [exc |-> "ValueError", disk |-> disk]
        ELSE IF fault = "db" THEN [exc |-> "sqlite3.Error", disk |-> disk]
        ELSE IF fault = "csv" THEN [exc |-> "OSError", disk |-> inserted]
        ELSE [exc |-> "",
              disk |-> [inserted EXCEPT !.csv_trades = write_csv(@, row)]]

store_market(raw, kv, src, fault, disk) ==
    LET row == MarketRow(raw, kv, src)
        inserted == [disk EXCEPT !.market = Append(@, row)]
    IN  IF MarketRowRaises(kv) THEN [exc |-> "ValueError", disk |-> disk]
        ELSE IF fault = "db" THEN [exc |-> "sqlite3.Error", disk |-> disk]
        ELSE IF fault = "csv" THEN [exc |-> "OSError", disk |-> inserted]
        ELSE [exc |-> "",
              disk |-> [inserted EXCEPT !.csv_market = write_csv(@, row)]]

(***************************************************************************)
(* classify_and_store                                                      *)
(***************************************************************************)
ActionCodes == {"EL", "ES", "XL", "XS", "XA"}

TradeEnvelopes == {"TELEM", "TRD", "TRADE"}

MarketEnvelopes == {"PSY", "MKT", "MKT2"}

TradeKeys == {"sig", "verb"}

\* faulty variant of MarketOnlyKeys: the session key is missing
MarketOnlyKeysNoSess == {"adx", "bbw", "liq", "fp", "spr"}

MarketOnlyKeys == {"adx", "bbw", "liq", "fp", "spr", "sess"}

\* faulty variant of HasAny: any(kv), true of every non-empty map
HasAnyKey(kv, keys) == DOMAIN kv # {}

\* any(k in kv for k in keys)
HasAny(kv, keys) == \E k \in keys : k \in DOMAIN kv

\* kv.setdefault(k, v)
SetDefault(kv, k, v) == IF k \in DOMAIN kv THEN kv ELSE Put(kv, k, v)

\* The branch classify_and_store takes: the store function it calls ("none"
\* when it raises "Unrecognized payload"), with the kv map it passes
Branch(prefix, kv) ==
    LET pf == Upper(prefix)
    IN  IF pf \in ActionCodes
        THEN [call |-> "store_trade", kv |-> SetDefault(kv, "verb", pf)]
        ELSE IF pf \in TradeEnvelopes THEN [call |-> "store_trade", kv |-> kv]
        ELSE IF pf \in MarketEnvelopes THEN [call |-> "store_market", kv |-> kv]
        ELSE IF HasAny(kv, TradeKeys) THEN [call |-> "store_trade", kv |-> kv]
        ELSE IF HasAny(kv, MarketOnlyKeys) THEN [call |-> "store_market", kv |-> kv]
        ELSE [call |-> "none", kv |-> kv]

\* classify_and_store(raw) under a fault: the store function called, the kind
\* returned ("" when it raises), the exception raised ("" when it returns)
\* and the disk after
classify_and_store(raw, fault, disk) ==
    LET parsed == kv_parse(raw)
        b == Branch(parsed.prefix, parsed.kv)
        t == store_trade(raw, b.kv, "F34", fault, disk)
        m == store_market(raw, b.kv, "HEIMDALL", fault, disk)
    IN  IF b.call = "store_trade"
        THEN [call |-> b.call, kind |-> IF t.exc = "" THEN "trade" ELSE "",
              exc |-> t.exc, disk |-> t.disk]
        ELSE IF b.call = "store_market"
        THEN [call |-> b.call, kind |-> IF m.exc = "" THEN "market" ELSE "",
              exc |-> m.exc, disk |-> m.disk]
        ELSE [call |-> "none", kind |-> "", exc |-> "Unrecognized payload", disk |-> disk]

(***************************************************************************)
(* The dedup cache _recent.  Only the digests of the texts a run submits   *)
(* more than once are kept by name (known); the digests of all other       *)
(* texts, each submitted once and never again, are interchangeable and are *)
(* kept as a count (other).  len(_recent) is Size.                         *)
(***************************************************************************)
Cap == 2000

Batch == 500

\* hashlib.sha1(msg.encode("utf-8")).hexdigest(): distinct texts of a run
\* have distinct digests
Sha1(msg) == <<"sha1", msg>>

Size(c) == Cardinality(c.known) + c.other

\* faulty variant of InRecent: the raw text, not its digest, is looked up
InRecentRawText(h, c) == <<"raw", h[2]>> \in c.known

\* h in _recent
InRecent(h, c) == h \in c.known

\* faulty variant of Add: the digest is not recorded
AddDropped(c, h) == c

\* _recent.add(h), h not in _recent
Add(c, h) == [c EXCEPT !.known = @ \cup {h}]

\* _recent.add(h) for the digest of a text never submitted before
AddFresh(c) == [c EXCEPT !.other = @ + 1]

\* faulty variant of Overflow: the test is off by one
OverflowAtCap(c) == Size(c) >= Cap

\* len(_recent) > 2000
Overflow(c) == Size(c) > Cap

Min(a, b) == IF a <= b THEN a ELSE b

\* for _ in range(500): _recent.pop().  set.pop() removes an arbitrary
\* element: every choice of the removed digests is an outcome; KeyError
\* (the set ran empty) ends the loop
Evict(c) ==
    LET n == Min(Batch, Size(c))
    IN  {[known |-> c.known \ E, other |-> c.other - (n - Cardinality(E))] :
            E \in {X \in SUBSET c.known :
                      Cardinality(X) <= n /\ n - Cardinality(X) <= c.other}}

AfterInsert(c) == IF Overflow(c) THEN Evict(c) ELSE {c}

\* seen(msg) on cache c: the outcomes [ret, cache]
seen(msg, c) ==
    LET h == Sha1(msg)
    IN  IF InRecent(h, c)
        THEN {[ret |-> TRUE, cache |-> c]}
        ELSE {[ret |-> FALSE, cache |-> c2] : c2 \in AfterInsert(Add(c, h))}

\* seen(msg) for a text never submitted before
seen_fresh(c) == {[ret |-> FALSE, cache |-> c2] : c2 \in AfterInsert(AddFresh(c))}

(***************************************************************************)
(* check_auth                                                              *)
(***************************************************************************)
URL_TOKEN == "0bb658f5cbaa696a882487a4fcb89bab"

HEADER_SECRET == "c9a9f6748a941a4177c827c67155c975"

ALT_HEADER_SECRET == "sugarsecret123"

\* the index of the first whitespace character of s, 0 when there is none
FindSpace(s) ==
    IF \E i \in 1..Len(s) : Ch(s, i) \in Whitespace
    THEN CHOOSE i \in 1..Len(s) :
            Ch(s, i) \in Whitespace /\ \A j \in 1..(i - 1) : Ch(s, j) \notin Whitespace
    ELSE 0

\* str.split(): the words between runs of whitespace
RECURSIVE Words(_)
Words(s) ==
    LET t == LStrip(s)
        i == FindSpace(t)
    IN  IF t = "" THEN <<>>
        ELSE IF i = 0 THEN <<t>>
        ELSE <<SubSeq(t, 1, i - 1)>> \o Words(SubSeq(t, i + 1, Len(t)))

\* check_auth does not raise 401
check_auth(token_q, auth_h) ==
    LET parts == IF Truthy(auth_h) THEN Words(auth_h.str) ELSE <<>>
    IN  \/ URL_TOKEN # "" /\ token_q = Str(URL_TOKEN)
        \/ /\ Truthy(auth_h)
           /\ Len(parts) = 2
           /\ Lower(parts[1]) = "bearer"
           /\ parts[2] \in {HEADER_SECRET, ALT_HEADER_SECRET}

(***************************************************************************)
(* Bounds and inputs                                                       *)
(***************************************************************************)
\* concurrent /ingest requests of a run
NHandlers == 2

\* key=value segments of a generated message
MaxSegs == 2

Handlers == 1..NHandlers

\* query token and Authorization header of a request
Credentials ==
    {[token |-> None, auth |-> None],
     [token |-> Str(URL_TOKEN), auth |-> None],
     [token |-> Str("wrong"), auth |-> Str("bearer " \o ALT_HEADER_SECRET)],
     [token |-> None, auth |-> Str("Bearer " \o HEADER_SECRET)],
     [token |-> None, auth |-> Str("Basic " \o HEADER_SECRET)]}

\* request bodies of the concurrent runs
IngestBodies ==
    {"EL|sym=BTCUSDT|tf=5|ag=3", "PSY|sym=ETHUSDT|adx=22.1", "ZZ|note=hello", "  "}

Prefixes == {"EL", " xs ", "TELEM", "Trade", "PSY", "MKT2", "ZZ", ""}

Segments ==
    {"sym=BTCUSDT", "al=7.2", "al=notanumber", "al=", "ag=3", "ag=7.2",
     "sig=BUY", "verb=", "adx=22.1", "sess=ny", "bb=0.9", " liq = x ", "bare"}

RECURSIVE JoinSegs(_)
JoinSegs(segs) ==
    IF segs = <<>> THEN "" ELSE "|" \o Head(segs) \o JoinSegs(Tail(segs))

\* request bodies of the classification runs: a prefix and up to MaxSegs
\* segments, and a blank body
ClassifyBodies ==
    {p \o JoinSegs(segs) :
        p \in Prefixes, segs \in UNION {[1..k -> Segments] : k \in 0..MaxSegs}}
    \cup {" \n"}

\* texts passed to seen() more than once in the cache runs
SeenTexts == {"EL|sym=BTCUSDT", "PSY|adx=22.1"}

\* Cache fill levels a concurrent run starts from: n distinct unrecognised
\* payloads were ingested before (seen() records each before
\* classify_and_store rejects it, so the tables and files are still empty)
FillLevels == {0, Cap - 1, Cap}

(***************************************************************************)
(* State                                                                   *)
(***************************************************************************)
VARIABLES
    recent,       \* _recent: the digests kept by name
    recentOther,  \* _recent: how many other digests it holds
    trades,       \* table trades
    market,       \* table market
    csv_trades,   \* file trades_<day>.csv
    csv_market,   \* file market_<day>.csv
    pc,           \* per handler: "idle", "body" (await request.body()),
                  \*   "json" (await request.json()), "done"
    req,          \* per handler: the request body
    resp,         \* per handler: the response
    trace,        \* per handler (history): what its seen() returned, the
                  \*   eviction count at its membership test, the store
                  \*   function called, the sink fault that struck
    call,         \* (history) the last seen() call
    epoch         \* (history) batch evictions so far in ingest

vars == <<recent, recentOther, trades, market, csv_trades, csv_market,
          pc, req, resp, trace, call, epoch>>

Cache == [known |-> recent, other |-> recentOther]

Disk == [trades |-> trades, market |-> market,
         csv_trades |-> csv_trades, csv_market |-> csv_market]

sinks == <<trades, market, csv_trades, csv_market>>

NoResp == [code |-> 0, status |-> "", kind |-> "", detail |-> "", len |-> 0]

\* JSONResponse({"status": ..., "kind": ..., "len": len(raw)})
Ok(status, kind, raw) ==
    [code |-> 200, status |-> status, kind |-> kind, detail |-> "", len |-> Len(raw)]

\* HTTPException(status_code, detail)
Http(code, detail) ==
    [code |-> code, status |-> "", kind |-> "", detail |-> detail, len |-> 0]

NoTrace == [seen |-> "none", epoch |-> 0, call |-> "none", fault |-> "none"]

NoCall == [made |-> FALSE, fresh |-> FALSE, msg |-> "", ret |-> FALSE,
           before |-> 0, after |-> 0]

InitEmpty ==
    /\ recent = {}
    /\ recentOther = 0
    /\ trades = <<>>
    /\ market = <<>>
    /\ csv_trades = <<>>
    /\ csv_market = <<>>
    /\ pc = [h \in Handlers |-> "idle"]
    /\ req = [h \in Handlers |-> ""]
    /\ resp = [h \in Handlers |-> NoResp]
    /\ trace = [h \in Handlers |-> NoTrace]
    /\ call = NoCall
    /\ epoch = 0

Init ==
    /\ recent = {}
    /\ recentOther \in FillLevels
    /\ trades = <<>>
    /\ market = <<>>
    /\ csv_trades = <<>>
    /\ csv_market = <<>>
    /\ pc = [h \in Handlers |-> "idle"]
    /\ req = [h \in Handlers |-> ""]
    /\ resp = [h \in Handlers |-> NoResp]
    /\ trace = [h \in Handlers |-> NoTrace]
    /\ call = NoCall
    /\ epoch = 0

(***************************************************************************)
(* seen() called on its own                                                *)
(***************************************************************************)
SetCache(c) == recent' = c.known /\ recentOther' = c.other

Called(fresh, msg, o) ==
    [made |-> TRUE, fresh |-> fresh, msg |-> msg, ret |-> o.ret,
     before |-> Size(Cache), after |-> Size(o.cache)]

SeenText(m) ==
    /\ \E o \in seen(m, Cache) : SetCache(o.cache) /\ call' = Called(FALSE, m, o)
    /\ UNCHANGED <<sinks, pc, req, resp, trace, epoch>>

SeenFresh ==
    /\ \E o \in seen_fresh(Cache) : SetCache(o.cache) /\ call' = Called(TRUE, "", o)
    /\ UNCHANGED <<sinks, pc, req, resp, trace, epoch>>

(***************************************************************************)
(* ingest.  The handler is a coroutine on one event loop: it yields only   *)
(* at its awaits, so the code between two awaits is one step.              *)
(***************************************************************************)
\* check_auth, then await request.body()
Begin(h, bodies) ==
    /\ pc[h] = "idle"
    /\ \E cred \in Credentials :
          IF check_auth(cred.token, cred.auth)
          THEN /\ pc' = [pc EXCEPT ![h] = "body"]
               /\ resp' = resp
          ELSE /\ pc' = [pc EXCEPT ![h] = "done"]
               /\ resp' = [resp EXCEPT ![h] = Http(401, "Unauthorized")]
    /\ \E body \in bodies : req' = [req EXCEPT ![h] = body]
    /\ UNCHANGED <<recent, recentOther, sinks, trace, call, epoch>>

\* raw = body.decode("utf-8", errors="ignore").strip()
Raw(h) == Strip(req[h])

\* seen(raw) returned True
Duplicate(h, raw, o) ==
    /\ resp' = [resp EXCEPT ![h] = Ok("dup", "", raw)]
    /\ trace' = [trace EXCEPT ![h] = [NoTrace EXCEPT !.seen = "hit", !.epoch = epoch]]
    /\ UNCHANGED sinks

\* seen(raw) returned False: classify_and_store under try/except
Store(h, raw, o) ==
    \E fault \in Faults :
        LET r == classify_and_store(raw, fault, Disk)
        IN  /\ trades' = r.disk.trades
            /\ market' = r.disk.market
            /\ csv_trades' = r.disk.csv_trades
            /\ csv_market' = r.disk.csv_market
            /\ resp' = [resp EXCEPT ![h] =
                           IF r.exc = "" THEN Ok("ok", r.kind, raw)
                           ELSE Http(422, "Parse error: " \o r.exc)]
            /\ trace' = [trace EXCEPT ![h] =
                           [seen |-> "miss", epoch |-> epoch, call |-> r.call,
                            fault |-> IF r.exc \in {"sqlite3.Error", "OSError"}
                                      THEN fault ELSE "none"]]

\* request.body() returned: lines 240-261 up to the next await or the return
AfterBody(h) ==
    /\ pc[h] = "body"
    /\ IF Raw(h) = ""
       THEN /\ pc' = [pc EXCEPT ![h] = "json"]
            /\ UNCHANGED <<recent, recentOther, sinks, resp, trace, call, epoch>>
       ELSE /\ pc' = [pc EXCEPT ![h] = "done"]
            /\ \E o \in seen(Raw(h), Cache) :
                  /\ SetCache(o.cache)
                  /\ call' = Called(FALSE, Raw(h), o)
                  /\ epoch' = IF Size(o.cache) < Size(Cache) THEN epoch + 1 ELSE epoch
                  /\ IF o.ret THEN Duplicate(h, Raw(h), o) ELSE Store(h, Raw(h), o)
    /\ UNCHANGED req

\* request.json() on a body that strips to "": no such body is JSON, the
\* exception is swallowed, raw stays empty: 400
AfterJson(h) ==
    /\ pc[h] = "json"
    /\ pc' = [pc EXCEPT ![h] = "done"]
    /\ resp' = [resp EXCEPT ![h] = Http(400, "Empty payload")]
    /\ UNCHANGED <<recent, recentOther, sinks, req, trace, call, epoch>>

(***************************************************************************)
(* Specifications                                                          *)
(***************************************************************************)
\* concurrent ingest requests over a few bodies
Next ==
    \E h \in Handlers :
        \/ Begin(h, IngestBodies)
        \/ AfterBody(h)
        \/ AfterJson(h)

Spec == Init /\ [][Next]_vars

\* one ingest request over the generated bodies
NextClassify ==
    \/ Begin(1, ClassifyBodies)
    \/ AfterBody(1)
    \/ AfterJson(1)

SpecClassify == InitEmpty /\ [][NextClassify]_vars

\* seen() alone, from the empty cache
NextSeen ==
    \/ \E m \in SeenTexts : SeenText(m)
    \/ SeenFresh

SpecSeen == InitEmpty /\ [][NextSeen]_vars

(***************************************************************************)
(* Properties                                                              *)
(***************************************************************************)
\* how many rows of both tables carry raw text m
Stored(m) ==
    Cardinality({i \in 1..Len(trades) : trades[i].raw = Str(m)})
    + Cardinality({i \in 1..Len(market) : market[i].raw = Str(m)})

\* what kv_parse and the branch give for handler h's raw text
PrefixOf(h) == kv_parse(Raw(h)).prefix

KeysOf(h) == DOMAIN kv_parse(Raw(h)).kv

\* handler h got past seen() and its request is answered
Processed(h) == pc[h] = "done" /\ trace[h].seen = "miss"

\* C1: for every text m whose digest is not in the cache, seen(m) returns
\* false, and a seen(m) issued immediately after a seen(m) that returned
\* false returns true, at every fill level, the overflowing call included.
C1_FirstFalseThenTrue ==
    [][\A m \in SeenTexts :
          /\ (SeenText(m) /\ Sha1(m) \notin recent) => call'.ret = FALSE
          /\ (SeenText(m) /\ call.made /\ ~call.fresh /\ call.msg = m /\ ~call.ret)
                => call'.ret = TRUE]_vars

\* C2: an authorized, non-empty request whose digest is already in the
\* cache is answered 200 "dup", leaves both tables and both CSV files
\* unchanged, and calls no store function.
C2_DupAcknowledged ==
    [][\A h \in Handlers :
          (pc[h] = "body" /\ pc'[h] = "done" /\ Raw(h) # "" /\ Sha1(Raw(h)) \in recent)
             => /\ resp'[h] = [code |-> 200, status |-> "dup", kind |-> "",
                               detail |-> "", len |-> Len(Raw(h))]
                /\ trace'[h].call = "none"
                /\ UNCHANGED sinks]_vars

C2_Witness ==
    \E h \in Handlers :
        /\ pc[h] = "done" /\ resp[h].status = "dup"
        /\ Stored(Raw(h)) = 1
        /\ csv_trades # <<>> \/ csv_market # <<>>

\* C3: of the handlers that submit the same raw text, with no eviction
\* between their membership tests, at most one sees seen() = false; every
\* handler that sees true follows one that saw false; and while no eviction
\* has happened no raw text is stored twice.
C3_AtomicCheckInsert ==
    /\ \A h1, h2 \in Handlers :
          (h1 # h2 /\ Raw(h1) = Raw(h2)
              /\ trace[h1].seen = "miss" /\ trace[h2].seen = "miss")
             => trace[h1].epoch # trace[h2].epoch
    /\ \A h \in Handlers :
          trace[h].seen = "hit"
             => \E g \in Handlers \ {h} : Raw(g) = Raw(h) /\ trace[g].seen = "miss"
    /\ epoch = 0 => \A h \in Handlers : Stored(Raw(h)) <= 1

C3_Witness ==
    \E h1, h2 \in Handlers :
        /\ h1 # h2 /\ Raw(h1) = Raw(h2)
        /\ trace[h1].seen = "miss" /\ trace[h2].seen = "hit"
        /\ resp[h1].status = "ok" /\ resp[h2].status = "dup"
        /\ epoch = 0
        /\ Stored(Raw(h1)) = 1

\* the numeric fields of the two kinds, as the claim lists them
C4_TradeNumeric == {"ag", "al", "hr", "ds", "sl", "wr20"}

C4_MarketNumeric == {"p", "v", "atr", "bbw", "bb", "al", "hr", "adx", "liq", "spr"}

\* a non-empty value that is no number
C4_Unparsable(h, k) ==
    LET kv == kv_parse(Raw(h)).kv
    IN  /\ k \in DOMAIN kv
        /\ kv[k] # ""
        /\ IF k = "ag" THEN ~IsIntLit(kv[k]) ELSE ~IsFloatLit(kv[k])

\* C4: a message that classifies as trade or market and holds a non-empty
\* non-numeric value in a numeric field is still stored, as one record with
\* that field null, and the request succeeds (no sink fault striking).
C4_UnparsableFieldIsNull ==
    \A h \in Handlers :
        /\ (Processed(h) /\ trace[h].fault = "none" /\ trace[h].call = "store_trade"
              /\ \E k \in C4_TradeNumeric : C4_Unparsable(h, k))
             => /\ resp[h].status = "ok"
                /\ Len(trades) = 1
                /\ \A k \in C4_TradeNumeric : C4_Unparsable(h, k) => trades[1][k] = None
        /\ (Processed(h) /\ trace[h].fault = "none" /\ trace[h].call = "store_market"
              /\ \E k \in C4_MarketNumeric : C4_Unparsable(h, k))
             => /\ resp[h].status = "ok"
                /\ Len(market) = 1
                /\ \A k \in C4_MarketNumeric : C4_Unparsable(h, k) => market[1][k] = None

\* the known prefixes, as the claims list them
C5_TradePrefixes == {"EL", "ES", "XL", "XS", "XA", "TELEM", "TRD", "TRADE"}

C6_KnownPrefixes == C5_TradePrefixes \cup {"PSY", "MKT", "MKT2"}

C6_MarketOnly == {"adx", "bbw", "liq", "fp", "spr", "sess"}

\* C5: a raw text whose trimmed, upper-cased prefix is a known trade prefix
\* is answered with kind "trade", whatever its keys and values (no sink
\* fault striking).
C5_TradePrefixIsTrade ==
    \A h \in Handlers :
        (Processed(h) /\ trace[h].fault = "none" /\ PrefixOf(h) \in C5_TradePrefixes)
           => resp[h].status = "ok" /\ resp[h].kind = "trade"

C7_UnrecognizedRejected ==
    \A h \in Handlers :
        (Processed(h) /\ PrefixOf(h) \notin C6_KnownPrefixes
            /\ KeysOf(h) \cap ({"sig", "verb"} \cup C6_MarketOnly) = {})
           => /\ resp[h] = [code |-> 422, status |-> "", kind |-> "",
                            detail |-> "Parse error: Unrecognized payload", len |-> 0]
              /\ trace[h].call = "none"
              /\ Disk = EmptyDisk

C7_Witness ==
    \E h \in Handlers :
        /\ Processed(h) /\ PrefixOf(h) \notin C6_KnownPrefixes
        /\ KeysOf(h) # {}
        /\ KeysOf(h) \cap ({"sig", "verb"} \cup C6_MarketOnly) = {}
        /\ resp[h].code = 422

\* table t2 is table t with one row for raw text m appended, and file f2 is
\* file f with that row's line last
C8_Appended(t, t2, f, f2, m) ==
    /\ Len(t2) = Len(t) + 1
    /\ SubSeq(t2, 1, Len(t)) = t
    /\ t2[Len(t2)].raw = Str(m)
    /\ Len(f2) > Len(f)
    /\ SubSeq(f2, 1, Len(f)) = f
    /\ f2[Len(f2)] = [line |-> t2[Len(t2)]]

\* C8: an ingest of a non-duplicate message either succeeds with exactly one
\* record of one kind appended (a table row and its CSV line), or fails
\* with no record of it added to any table or file; stored rows and lines
\* are never changed or removed.
C8_AllOrNothing ==
    [][\A h \in Handlers :
          (pc[h] = "body" /\ pc'[h] = "done" /\ trace'[h].seen = "miss")
             => \/ /\ resp'[h].status = "ok"
                   /\ \/ /\ C8_Appended(trades, trades', csv_trades, csv_trades', Raw(h))
                         /\ UNCHANGED <<market, csv_market>>
                      \/ /\ C8_Appended(market, market', csv_market, csv_market', Raw(h))
                         /\ UNCHANGED <<trades, csv_trades>>
                \/ /\ resp'[h].code # 200
                   /\ UNCHANGED sinks]_vars

\* C9: after every seen() the cache holds at most 2000 digests; an insertion
\* that raises the size above 2000 evicts exactly 500 in that call, leaving
\* 1501; a call that does not overflow evicts nothing.
C9_Bounded ==
    /\ Size(Cache) <= 2000
    /\ call.made =>
          LET grown == call.before + (IF call.ret THEN 0 ELSE 1)
          IN  /\ call.after = Size(Cache)
              /\ IF grown > 2000
                 THEN call.after = grown - 500 /\ call.after = 1501
                 ELSE call.after = grown

C9_Witness ==
    /\ call.made /\ ~call.ret
    /\ call.before = 2000
    /\ call.after = 1501
    /\ Size(Cache) = 1501

\* C10: every request answered "dup" carries a raw text that an earlier
\* request stored: a text whose first ingest failed is not recorded as seen.
C10_DupImpliesStored ==
    \A h \in Handlers :
        (pc[h] = "done" /\ resp[h].status = "dup") => Stored(Raw(h)) >= 1

====
